---- MODULE Spec2Model ----
(***************************************************************************)
(* Model of the cryptotrader poll loop (src/main.py): the quote fetcher,   *)
(* the threshold classifier, the two-table store and the loop of main().   *)
(*                                                                         *)
(* Conventions.  A DataFrame is the sequence of its rows.  A table is the  *)
(* sequence of its committed rows in insertion order (the surrogate key    *)
(* `id` of a row is its position).  percent_change_24h is kept in tenths   *)
(* of a percent (5.1 % is 51), so the thresholds 5 and -5 of the source    *)
(* are 50 and -50 here.  datetime.now() is the logical clock `now`.        *)
(***************************************************************************)
EXTENDS Integers, Sequences, FiniteSets, TLC

VARIABLES
    pc,             \* position of main(): the statement to execute next
    data,           \* main's `data`: None or the DataFrame of the last fetch
    signals,        \* main's `signals`: the dict returned by analyze
    crypto_prices,  \* committed rows of table crypto_prices
    trade_signals,  \* committed rows of table trade_signals
    now,            \* logical clock read by datetime.now()
    sleepArg,       \* argument of the last time.sleep call (0: none yet)
    out,            \* messages printed by the last step
    err,            \* exception that reached main's handlers in the last step
    calls,          \* how often each step of the loop has been executed
    failedAt,       \* failure point of the last store call (0: it did not fail)
    interrupted,    \* a KeyboardInterrupt has been delivered
    fetchLog,       \* outcome of every fetch so far, oldest first
    hist,           \* committed quote batches, committed signal batches and
                    \* time.sleep(60) calls so far
    market,         \* what the remote API answers for a coin of the response
    call,           \* a method called directly (outside main) and its arguments
    ret             \* what the directly called method returned

vars == <<pc, data, signals, crypto_prices, trade_signals, now, sleepArg, out,
          err, calls, failedAt, interrupted, fetchLog, hist, market, call, ret>>

\* the variables main() never touches
harness == <<market, call, ret>>

----------------------------------------------------------------------------
(* Bounds *)

MaxCycles == 3      \* fetches per run
MaxLen == 3         \* rows of a DataFrame handed directly to analyze
MaxSymbols == 3     \* symbols of a request handed directly to get_latest_prices
MaxRows == 3        \* rows of a quote table handed directly to get_recent_prices
MaxLimit == 2       \* limit handed directly to get_recent_prices

----------------------------------------------------------------------------
(* Program constants *)

symbols == <<"BTC", "ETH", "SOL">>

NormalInterval == 300
RecoveryInterval == 60

BuyChangeTenths == 50
SellChangeTenths == -50
BuyVolume == 1000000

Columns == {"symbol", "price", "volume_24h", "percent_change_24h", "timestamp"}

None == [none |-> TRUE, columns |-> {}, rows |-> <<>>]

\* pd.DataFrame(list of dicts): the columns are the keys of the dicts, so the
\* frame of an empty list has no columns at all.
DataFrame(rows) ==
    [none |-> FALSE, columns |-> IF rows = <<>> THEN {} ELSE Columns, rows |-> rows]

Steps == {"fetch", "store_quotes", "analyze", "store_signals", "report", "sleep"}

NoHistory == [quote_batches |-> 0, signal_batches |-> 0, recovery_sleeps |-> 0]

NoCall == [op |-> "none"]

----------------------------------------------------------------------------
(* Values a response can carry for one coin *)

Changes == {-51, -50, 50, 51}
Volumes == {999999, 1000000, 1000001}
Prices == {100}

CoinData == [price : Prices, volume_24h : Volumes, percent_change_24h : Changes]

\* The market the poll loop is run against: what the response carries for a
\* coin when the coin is in the response (one coin per classification
\* outcome; which coins are in the response varies from fetch to fetch).
LoopMarket ==
    [s \in {"BTC", "ETH", "SOL"} |->
        IF s = "BTC"
        THEN [price |-> 100, volume_24h |-> 1000001, percent_change_24h |-> 51]
        ELSE IF s = "ETH"
        THEN [price |-> 100, volume_24h |-> 999999, percent_change_24h |-> -51]
        ELSE [price |-> 100, volume_24h |-> 1000001, percent_change_24h |-> 50]]

RECURSIVE SeqToSet(_)
SeqToSet(s) == IF s = <<>> THEN {} ELSE {Head(s)} \cup SeqToSet(Tail(s))

----------------------------------------------------------------------------
(* CryptoDataCollector.get_latest_prices *)

\* The rows built by the loop over the requested symbols: one row per
\* requested symbol that is a key of the response's data mapping, in the
\* order of the request.
RECURSIVE processed_data(_, _, _)
processed_data(syms, coins, ts) ==
    IF syms = <<>> THEN <<>>
    ELSE LET symbol == Head(syms)
             rest == processed_data(Tail(syms), coins, ts)
         IN IF symbol \in DOMAIN coins
            THEN <<[symbol |-> symbol,
                    price |-> coins[symbol].price,
                    volume_24h |-> coins[symbol].volume_24h,
                    percent_change_24h |-> coins[symbol].percent_change_24h,
                    timestamp |-> ts]>> \o rest
            ELSE rest

\* variant: a requested symbol missing from the response is an error (the
\* KeyError ends in the method's own handler)
get_latest_prices_strict(syms, kind, coins, ts) ==
    IF kind = "ok" /\ SeqToSet(syms) \subseteq DOMAIN coins
    THEN [value |-> DataFrame(processed_data(syms, coins, ts)), printed |-> <<>>]
    ELSE [value |-> None, printed |-> <<"Error fetching data">>]

\* kind: "transport" (requests.get or response.json raises), "remote"
\* (status code other than 200) or "ok" (status code 200).
get_latest_prices(syms, kind, coins, ts) ==
    IF kind = "ok"
    THEN [value |-> DataFrame(processed_data(syms, coins, ts)), printed |-> <<>>]
    ELSE IF kind = "remote"
    THEN [value |-> None, printed |-> <<"Error: remote">>]
    ELSE [value |-> None, printed |-> <<"Error fetching data">>]

----------------------------------------------------------------------------
(* TradeAnalyzer.analyze *)

\* data['symbol'].unique(): the distinct symbols in order of first appearance
RECURSIVE unique(_)
unique(rows) ==
    IF rows = <<>> THEN <<>>
    ELSE LET init == unique(SubSeq(rows, 1, Len(rows) - 1))
             last == rows[Len(rows)].symbol
         IN IF last \in SeqToSet(init) THEN init ELSE Append(init, last)

\* data[data['symbol'] == symbol]
filter_symbol(rows, symbol) == SelectSeq(rows, LAMBDA r : r.symbol = symbol)

\* variant: the last row of the group instead of the first
iloc_last(rows) == rows[Len(rows)]

\* .iloc[0]
iloc0(rows) == rows[1]

\* variant: the bound on the change is inclusive
classify_ge(coin_data) ==
    IF coin_data.percent_change_24h >= BuyChangeTenths
       /\ coin_data.volume_24h > BuyVolume
    THEN "BUY"
    ELSE IF coin_data.percent_change_24h < SellChangeTenths
    THEN "SELL"
    ELSE "HOLD"

classify(coin_data) ==
    IF coin_data.percent_change_24h > BuyChangeTenths
       /\ coin_data.volume_24h > BuyVolume
    THEN "BUY"
    ELSE IF coin_data.percent_change_24h < SellChangeTenths
    THEN "SELL"
    ELSE "HOLD"

RECURSIVE analyze_loop(_, _)
analyze_loop(rows, syms) ==
    IF syms = <<>> THEN <<>>
    ELSE <<[symbol |-> Head(syms),
            signal |-> classify(iloc0(filter_symbol(rows, Head(syms))))]>>
         \o analyze_loop(rows, Tail(syms))

\* data['symbol'] raises KeyError when the frame has no such column
has_symbol_column(df) == "symbol" \in df.columns

analyze(df) ==
    IF has_symbol_column(df)
    THEN [raised |-> "none", value |-> analyze_loop(df.rows, unique(df.rows))]
    ELSE [raised |-> "KeyError", value |-> <<>>]

----------------------------------------------------------------------------
(* DatabaseManager.store_crypto_data / store_signals                        *)
(* failAt = 0: no failure; failAt = k <= Len(rows): the insert of row k      *)
(* fails when the session is flushed; failAt = Len(rows) + 1: the COMMIT     *)
(* itself fails.                                                             *)

FailPoints(rows) == IF rows = <<>> THEN {0} ELSE 0 .. Len(rows) + 1

\* the rows the open transaction has inserted when the failure strikes
inserted_before(rows, failAt) ==
    IF failAt = 0 \/ failAt > Len(rows) THEN rows
    ELSE SubSeq(rows, 1, failAt - 1)

\* variant: no rollback, the rows inserted before the failure stay
rollback_keeps_inserted(table, inserted) == table \o inserted

\* session.rollback(): the table is what it was before the transaction
rollback(table, inserted) == table

\* variant: a new row replaces the stored row of its symbol
commit_upsert(table, inserted) ==
    SelectSeq(table, LAMBDA r : \A i \in 1 .. Len(inserted) : inserted[i].symbol # r.symbol)
        \o inserted

\* session.commit()
commit(table, inserted) == table \o inserted

store_crypto_data(table, df, failAt) ==
    LET inserted == inserted_before(df.rows, failAt)
    IN IF failAt = 0
       THEN [table |-> commit(table, inserted), raised |-> "none", printed |-> <<>>]
       ELSE [table |-> rollback(table, inserted), raised |-> "SQLAlchemyError",
             printed |-> <<"Error storing crypto data">>]

signal_rows(sigs, ts) ==
    [i \in 1 .. Len(sigs) |->
        [symbol |-> sigs[i].symbol, signal |-> sigs[i].signal, timestamp |-> ts]]

\* variant: no rollback, the rows inserted before the failure stay
rollback_signals_keeps_inserted(table, inserted) == table \o inserted

\* session.rollback() of store_signals
rollback_signals(table, inserted) == table

store_signals(table, sigs, ts, failAt) ==
    LET inserted == inserted_before(signal_rows(sigs, ts), failAt)
    IN IF failAt = 0
       THEN [table |-> commit(table, inserted), raised |-> "none", printed |-> <<>>]
       ELSE [table |-> rollback_signals(table, inserted), raised |-> "SQLAlchemyError",
             printed |-> <<"Error storing signals">>]

----------------------------------------------------------------------------
(* DatabaseManager.get_recent_prices *)

\* the columns of the frame pd.read_sql builds from the query's result
PriceColumns == Columns \cup {"id"}

\* .filter(CryptoPrice.symbol == symbol)
filter_by_symbol(table, symbol) == SelectSeq(table, LAMBDA r : r.symbol = symbol)

\* r put into a sequence that is ordered by timestamp, newest first
RECURSIVE insert_desc(_, _)
insert_desc(sorted, r) ==
    IF sorted = <<>> THEN <<r>>
    ELSE IF r.timestamp > Head(sorted).timestamp THEN <<r>> \o sorted
    ELSE <<Head(sorted)>> \o insert_desc(Tail(sorted), r)

RECURSIVE sort_desc(_)
sort_desc(rows) ==
    IF rows = <<>> THEN <<>>
    ELSE insert_desc(sort_desc(SubSeq(rows, 1, Len(rows) - 1)), rows[Len(rows)])

\* variant: ordered by timestamp without .desc(), oldest first
order_by_timestamp_asc(rows) ==
    LET d == sort_desc(rows)
    IN [i \in 1 .. Len(d) |-> d[Len(d) + 1 - i]]

\* .order_by(CryptoPrice.timestamp.desc())
order_by_timestamp_desc(rows) == sort_desc(rows)

\* .limit(limit)
limit_rows(rows, limit) ==
    SubSeq(rows, 1, IF limit < Len(rows) THEN limit ELSE Len(rows))

\* variant: the SQLAlchemyError is not handled
read_failed_raises ==
    [value |-> None, raised |-> "SQLAlchemyError", printed |-> <<>>]

\* except SQLAlchemyError (lines 92-94): print and return an empty frame
read_failed ==
    [value |-> DataFrame(<<>>), raised |-> "none",
     printed |-> <<"Error retrieving price data">>]

get_recent_prices(table, symbol, limit, fail) ==
    IF fail THEN read_failed
    ELSE [value |-> [none |-> FALSE, columns |-> PriceColumns,
                     rows |-> limit_rows(order_by_timestamp_desc(
                                  filter_by_symbol(table, symbol)), limit)],
          raised |-> "none", printed |-> <<>>]

----------------------------------------------------------------------------
(* main *)

Running(p) == p \in {"fetch", "store_quotes", "analyze", "store_signals",
                     "report", "sleep", "recover"}

\* inside the body of the inner try statement (lines 179-199)
InTryBody(p) == p \in {"fetch", "store_quotes", "analyze", "store_signals",
                       "report", "sleep"}

Terminal(p) == p \in {"stopped", "fatal", "aborted"}

Count(step) == [calls EXCEPT ![step] = @ + 1]

\* variant: the handler does not sleep before the next iteration
except_Exception_nosleep(e) ==
    [pc |-> "fetch", sleepArg |-> sleepArg, printed |-> <<"Error in main loop">>]

\* variant: the exception is not handled in the loop and reaches the outer handler
except_Exception_fatal(e) ==
    [pc |-> "fatal", sleepArg |-> sleepArg, printed |-> <<"Fatal error">>]

\* except Exception as e (lines 204-206): print, then time.sleep(60)
except_Exception(e) ==
    [pc |-> "recover", sleepArg |-> RecoveryInterval,
     printed |-> <<"Error in main loop">>]

\* the handler's time.sleep(60) has been called
Slept(h) ==
    IF h.pc = "recover" THEN [hist EXCEPT !.recovery_sleeps = @ + 1] ELSE hist

\* variant: the quote write is left out, the data goes straight to analyze
after_fetch_skips_store(value) ==
    IF ~value.none
    THEN [pc |-> "analyze", sleepArg |-> sleepArg]
    ELSE [pc |-> "sleep", sleepArg |-> NormalInterval]

\* variant: a fetch without data ends the loop
after_fetch_break(value) ==
    IF ~value.none
    THEN [pc |-> "store_quotes", sleepArg |-> sleepArg]
    ELSE [pc |-> "stopped", sleepArg |-> sleepArg]

\* `if data is not None` (line 183) and the sleep that follows the if
after_fetch(value) ==
    IF ~value.none
    THEN [pc |-> "store_quotes", sleepArg |-> sleepArg]
    ELSE [pc |-> "sleep", sleepArg |-> NormalInterval]

\* variant: __init__ does not re-raise, main goes on into the loop
startup_failed_swallowed == [pc |-> "fetch", printed |-> <<"Error connecting to database">>]

\* DatabaseManager.__init__ raised: outer except Exception (lines 207-208)
startup_failed == [pc |-> "fatal", printed |-> <<"Error connecting to database", "Fatal error">>]

TypeOK ==
    /\ pc \in {"startup", "fetch", "store_quotes", "analyze", "store_signals",
               "report", "sleep", "recover", "stopped", "fatal", "aborted"}
    /\ data.none \in BOOLEAN
    /\ now \in 0 .. 2 * MaxCycles
    /\ sleepArg \in {0, RecoveryInterval, NormalInterval}
    /\ interrupted \in BOOLEAN
    /\ Len(fetchLog) <= MaxCycles

Init ==
    /\ pc = "startup"
    /\ data = None
    /\ signals = <<>>
    /\ crypto_prices = <<>>
    /\ trade_signals = <<>>
    /\ now = 0
    /\ sleepArg = 0
    /\ out = <<>>
    /\ err = "none"
    /\ calls = [s \in Steps |-> 0]
    /\ failedAt = 0
    /\ interrupted = FALSE
    /\ fetchLog = <<>>
    /\ hist = NoHistory
    /\ market = LoopMarket
    /\ call = NoCall
    /\ ret = None

\* lines 171-175: DatabaseManager(db_connection_string) and the two constructors
Startup ==
    /\ pc = "startup"
    /\ \E ok \in BOOLEAN :
          IF ok
          THEN /\ pc' = "fetch"
               /\ out' = <<"Successfully connected to the database">>
               /\ err' = "none"
          ELSE /\ pc' = startup_failed.pc
               /\ out' = startup_failed.printed
               /\ err' = "Exception"
    /\ UNCHANGED <<hist, failedAt, data, signals, crypto_prices, trade_signals, now, sleepArg,
                   calls, interrupted, fetchLog>>
    /\ UNCHANGED harness

\* lines 180-183: data = collector.get_latest_prices(symbols); if data is not None
Fetch ==
    /\ pc = "fetch"
    /\ Len(fetchLog) < MaxCycles
    /\ \E kind \in {"transport", "remote", "ok"} :
       \E present \in SUBSET SeqToSet(symbols) :
          LET coins == [s \in present |-> market[s]]
              r == get_latest_prices(symbols, kind, coins, now + 1)
              nxt == after_fetch(r.value)
          IN /\ (kind # "ok" => present = {})
             /\ data' = r.value
             /\ out' = <<"Fetching latest crypto data...">> \o r.printed
             /\ pc' = nxt.pc
             /\ sleepArg' = nxt.sleepArg
             /\ fetchLog' = Append(fetchLog, kind)
    /\ now' = now + 1
    /\ err' = "none"
    /\ calls' = IF data'.none THEN [Count("fetch") EXCEPT !["sleep"] = @ + 1]
                ELSE Count("fetch")
    /\ UNCHANGED <<hist, failedAt, signals, crypto_prices, trade_signals, interrupted>>
    /\ UNCHANGED harness

\* line 184: db_manager.store_crypto_data(data)
StoreQuotes ==
    /\ pc = "store_quotes"
    /\ \E failAt \in FailPoints(data.rows) :
          LET r == store_crypto_data(crypto_prices, data, failAt)
              h == except_Exception(r.raised)
          IN /\ crypto_prices' = r.table
             /\ failedAt' = failAt
             /\ err' = r.raised
             /\ IF r.raised = "none"
                THEN /\ pc' = "analyze"
                     /\ out' = r.printed
                     /\ hist' = [hist EXCEPT !.quote_batches = @ + 1]
                     /\ UNCHANGED sleepArg
                ELSE /\ pc' = h.pc
                     /\ out' = r.printed \o h.printed
                     /\ sleepArg' = h.sleepArg
                     /\ hist' = Slept(h)
    /\ calls' = Count("store_quotes")
    /\ UNCHANGED <<data, signals, trade_signals, now, interrupted, fetchLog>>
    /\ UNCHANGED harness

\* line 187: signals = analyzer.analyze(data)
Analyze ==
    /\ pc = "analyze"
    /\ LET r == analyze(data)
           h == except_Exception(r.raised)
       IN /\ err' = r.raised
          /\ IF r.raised = "none"
             THEN /\ signals' = r.value
                  /\ pc' = "store_signals"
                  /\ out' = <<>>
                  /\ UNCHANGED <<sleepArg, hist>>
             ELSE /\ pc' = h.pc
                  /\ out' = h.printed
                  /\ sleepArg' = h.sleepArg
                  /\ hist' = Slept(h)
                  /\ UNCHANGED signals
    /\ calls' = Count("analyze")
    /\ UNCHANGED <<failedAt, data, crypto_prices, trade_signals, now, interrupted, fetchLog>>
    /\ UNCHANGED harness

\* line 190: db_manager.store_signals(signals)
StoreSignals ==
    /\ pc = "store_signals"
    /\ \E failAt \in FailPoints(signals) :
          LET r == store_signals(trade_signals, signals, now + 1, failAt)
              h == except_Exception(r.raised)
          IN /\ trade_signals' = r.table
             /\ failedAt' = failAt
             /\ err' = r.raised
             /\ IF r.raised = "none"
                THEN /\ pc' = "report"
                     /\ out' = r.printed
                     /\ hist' = [hist EXCEPT !.signal_batches = @ + 1]
                     /\ UNCHANGED sleepArg
                ELSE /\ pc' = h.pc
                     /\ out' = r.printed \o h.printed
                     /\ sleepArg' = h.sleepArg
                     /\ hist' = Slept(h)
    /\ now' = now + 1
    /\ calls' = Count("store_signals")
    /\ UNCHANGED <<data, signals, crypto_prices, interrupted, fetchLog>>
    /\ UNCHANGED harness

\* lines 192-199: the report, then time.sleep(300) is entered
Report ==
    /\ pc = "report"
    /\ pc' = "sleep"
    /\ out' = <<"Current Data:", "Trading Signals:">>
    /\ sleepArg' = NormalInterval
    /\ err' = "none"
    /\ calls' = [Count("report") EXCEPT !["sleep"] = @ + 1]
    /\ UNCHANGED <<hist, failedAt, data, signals, crypto_prices, trade_signals, now, interrupted,
                   fetchLog>>
    /\ UNCHANGED harness

\* time.sleep(300) of line 199 returns: next iteration of while True
Wake ==
    /\ pc = "sleep"
    /\ pc' = "fetch"
    /\ out' = <<>>
    /\ err' = "none"
    /\ UNCHANGED <<hist, failedAt, data, signals, crypto_prices, trade_signals, now, sleepArg,
                   calls, interrupted, fetchLog>>
    /\ UNCHANGED harness

\* time.sleep(60) of line 206 returns: next iteration of while True
Recovered ==
    /\ pc = "recover"
    /\ pc' = "fetch"
    /\ out' = <<>>
    /\ err' = "none"
    /\ UNCHANGED <<hist, failedAt, data, signals, crypto_prices, trade_signals, now, sleepArg,
                   calls, interrupted, fetchLog>>
    /\ UNCHANGED harness

\* KeyboardInterrupt raised in the body of the inner try: it is no Exception,
\* so the handlers of get_latest_prices and of the store methods let it pass
\* (an open session is closed without commit) and line 201 catches it.
InterruptInTry ==
    /\ InTryBody(pc)
    /\ pc' = "stopped"
    /\ out' = <<"Stopping data collection...">>
    /\ err' = "KeyboardInterrupt"
    /\ interrupted' = TRUE
    /\ UNCHANGED <<hist, failedAt, data, signals, crypto_prices, trade_signals, now, sleepArg,
                   calls, fetchLog>>
    /\ UNCHANGED harness

\* KeyboardInterrupt raised outside the inner try body (during startup, or in
\* the handler's time.sleep(60)): neither the clauses of the inner try nor the
\* outer `except Exception` catch it, and it leaves main().
InterruptOutsideTry ==
    /\ pc \in {"startup", "recover"}
    /\ pc' = "aborted"
    /\ out' = <<"Traceback: KeyboardInterrupt">>
    /\ err' = "KeyboardInterrupt"
    /\ interrupted' = TRUE
    /\ UNCHANGED <<hist, failedAt, data, signals, crypto_prices, trade_signals, now, sleepArg,
                   calls, fetchLog>>
    /\ UNCHANGED harness

Next ==
    \/ Startup
    \/ Fetch
    \/ StoreQuotes
    \/ Analyze
    \/ StoreSignals
    \/ Report
    \/ Wake
    \/ Recovered
    \/ InterruptInTry
    \/ InterruptOutsideTry

Spec == Init /\ [][Next]_vars

----------------------------------------------------------------------------
(* main() against a remote API that answers null for the price of one coin *)

\* JSON null (None after response.json()) in place of a number; NaN and
\* Infinity, which response.json() accepts too, travel the same way
Null == -1

NullMarkets == {[LoopMarket EXCEPT ![s].price = Null] : s \in SeqToSet(symbols)}

InitNull ==
    /\ pc = "startup"
    /\ data = None
    /\ signals = <<>>
    /\ crypto_prices = <<>>
    /\ trade_signals = <<>>
    /\ now = 0
    /\ sleepArg = 0
    /\ out = <<>>
    /\ err = "none"
    /\ calls = [s \in Steps |-> 0]
    /\ failedAt = 0
    /\ interrupted = FALSE
    /\ fetchLog = <<>>
    /\ hist = NoHistory
    /\ market \in NullMarkets
    /\ call = NoCall
    /\ ret = None

SpecNull == InitNull /\ [][Next]_vars

----------------------------------------------------------------------------
(* analyze applied to an arbitrary DataFrame of at most MaxLen rows *)

AnalyzeSymbols == {"BTC", "ETH"}

QuoteRows ==
    [symbol : AnalyzeSymbols, price : Prices, volume_24h : Volumes,
     percent_change_24h : Changes, timestamp : {1}]

BoundedSeq(S, n) == UNION {[1 .. k -> S] : k \in 0 .. n}

InitAnalyze ==
    /\ pc = "analyze"
    /\ data \in {DataFrame(rows) : rows \in BoundedSeq(QuoteRows, MaxLen)}
    /\ signals = <<>>
    /\ crypto_prices = <<>>
    /\ trade_signals = <<>>
    /\ now = 1
    /\ sleepArg = 0
    /\ out = <<>>
    /\ err = "none"
    /\ calls = [s \in Steps |-> 0]
    /\ failedAt = 0
    /\ interrupted = FALSE
    /\ fetchLog = <<>>
    /\ hist = NoHistory
    /\ market = LoopMarket
    /\ call = NoCall
    /\ ret = None

NextAnalyze == Analyze

SpecAnalyze == InitAnalyze /\ [][NextAnalyze]_vars

----------------------------------------------------------------------------
(* get_latest_prices applied to an arbitrary request of at most MaxSymbols *)
(* distinct symbols and an arbitrary response                              *)

FetchSymbols == {"BTC", "ETH", "SOL", "ZZZ"}

\* what the response carries for a coin it contains
FetchMarket ==
    [s \in FetchSymbols |->
        IF s = "ZZZ"
        THEN [price |-> 100, volume_24h |-> 1000000, percent_change_24h |-> -50]
        ELSE LoopMarket[s]]

Requests ==
    {q \in BoundedSeq(FetchSymbols, MaxSymbols) :
        /\ q # <<>>
        /\ \A i, j \in 1 .. Len(q) : q[i] = q[j] => i = j}

FetchCalls ==
    {[op |-> "get_latest_prices", symbols |-> q, kind |-> k,
      coins |-> [s \in present |-> FetchMarket[s]]] :
        q \in Requests, k \in {"transport", "remote", "ok"},
        present \in SUBSET FetchSymbols}

InitFetch ==
    /\ pc = "call"
    /\ call \in {c \in FetchCalls : c.kind # "ok" => DOMAIN c.coins = {}}
    /\ ret = None
    /\ data = None
    /\ signals = <<>>
    /\ crypto_prices = <<>>
    /\ trade_signals = <<>>
    /\ now = 0
    /\ sleepArg = 0
    /\ out = <<>>
    /\ err = "none"
    /\ calls = [s \in Steps |-> 0]
    /\ failedAt = 0
    /\ interrupted = FALSE
    /\ fetchLog = <<>>
    /\ hist = NoHistory
    /\ market = FetchMarket

\* collector.get_latest_prices(call.symbols): every Exception is handled inside
CallFetch ==
    /\ pc = "call"
    /\ call.op = "get_latest_prices"
    /\ LET r == get_latest_prices(call.symbols, call.kind, call.coins, now + 1)
       IN /\ ret' = r.value
          /\ out' = r.printed
    /\ pc' = "returned"
    /\ now' = now + 1
    /\ err' = "none"
    /\ UNCHANGED <<data, signals, crypto_prices, trade_signals, sleepArg, calls,
                   failedAt, interrupted, fetchLog, hist, market, call>>

NextFetch == CallFetch

SpecFetch == InitFetch /\ [][NextFetch]_vars

----------------------------------------------------------------------------
(* get_recent_prices applied to an arbitrary quote table of at most MaxRows *)
(* rows, and to the table of ten BTC quotes                                 *)

StoredRow(s, ts) ==
    [symbol |-> s, price |-> 100, volume_24h |-> 1000001,
     percent_change_24h |-> 51, timestamp |-> ts]

\* Rows of one symbol never share a timestamp (the polls of a symbol are
\* minutes apart); the clock may have been set back between two polls, so
\* insertion order need not be timestamp order.
QuoteTables ==
    {t \in BoundedSeq({StoredRow(s, ts) : s \in AnalyzeSymbols, ts \in 1 .. MaxRows},
                       MaxRows) :
        \A i, j \in 1 .. Len(t) : t[i] = t[j] => i = j}

TenQuotes == [i \in 1 .. 10 |-> StoredRow("BTC", i)]

InitRecent ==
    /\ pc = "call"
    /\ \/ /\ crypto_prices \in QuoteTables
          /\ call \in [op : {"get_recent_prices"}, symbol : {"BTC", "ETH", "SOL"},
                        limit : 1 .. MaxLimit]
       \/ /\ crypto_prices = TenQuotes
          /\ call = [op |-> "get_recent_prices", symbol |-> "BTC", limit |-> 5]
    /\ ret = None
    /\ data = None
    /\ signals = <<>>
    /\ trade_signals = <<>>
    /\ now = 0
    /\ sleepArg = 0
    /\ out = <<>>
    /\ err = "none"
    /\ calls = [s \in Steps |-> 0]
    /\ failedAt = 0
    /\ interrupted = FALSE
    /\ fetchLog = <<>>
    /\ hist = NoHistory
    /\ market = LoopMarket

\* db_manager.get_recent_prices(call.symbol, call.limit); the read may fail
CallRecent ==
    /\ pc = "call"
    /\ call.op = "get_recent_prices"
    /\ \E fail \in BOOLEAN :
          LET r == get_recent_prices(crypto_prices, call.symbol, call.limit, fail)
          IN /\ ret' = r.value
             /\ err' = r.raised
             /\ out' = r.printed
    /\ pc' = "returned"
    /\ UNCHANGED <<data, signals, crypto_prices, trade_signals, now, sleepArg, calls,
                   failedAt, interrupted, fetchLog, hist, market, call>>

NextRecent == CallRecent

SpecRecent == InitRecent /\ [][NextRecent]_vars

----------------------------------------------------------------------------
(* Properties *)

Last(s) == s[Len(s)]

Printed(msg) == \E i \in 1 .. Len(out) : out[i] = msg

\* the first row of `rows` that carries symbol s
FirstQuote(rows, s) ==
    rows[CHOOSE i \in 1 .. Len(rows) :
            /\ rows[i].symbol = s
            /\ \A j \in 1 .. i - 1 : rows[j].symbol # s]

\* the rule of the classifier as the specification words it (changes in tenths)
IsBuy(q) == q.percent_change_24h > 50 /\ q.volume_24h > 1000000
IsSell(q) == ~IsBuy(q) /\ q.percent_change_24h < -50

Analyzed == calls["analyze"] > 0 /\ pc = "store_signals" /\ err = "none"

\* C1: a call of store_crypto_data either commits every row of the batch
\* (and main goes on to analyze) or leaves the quote table exactly as it was,
\* wherever the failure strikes; a failure reaches the caller as an exception
\* (main's handler logs it).  An interrupted call commits nothing either.
C1_StoreQuotesAllOrNothing ==
    [][pc = "store_quotes" =>
        \/ /\ pc' = "analyze"
           /\ err' = "none"
           /\ crypto_prices' = crypto_prices \o data.rows
        \/ /\ pc' = "recover"
           /\ err' = "SQLAlchemyError"
           /\ failedAt' > 0
           /\ crypto_prices' = crypto_prices
           /\ \E i \in 1 .. Len(out') : out'[i] = "Error in main loop"
        \/ /\ pc' = "stopped"
           /\ crypto_prices' = crypto_prices]_vars

\* C1 witness: the write of a three-row batch failed on its last row and the
\* quote table holds none of the rows.
C1_Witness ==
    /\ pc = "recover"
    /\ err = "SQLAlchemyError"
    /\ calls["store_quotes"] = 1
    /\ calls["analyze"] = 0
    /\ Len(data.rows) = 3
    /\ failedAt = 3
    /\ crypto_prices = <<>>

\* C2: a call of store_signals either commits every signal row or none; when
\* it fails the error reaches main's handler, and in either case the quote
\* table, which already holds this cycle's batch, is left as it is.
C2_StoreSignalsIndependent ==
    [][pc = "store_signals" =>
        /\ crypto_prices' = crypto_prices
        /\ Len(crypto_prices) >= Len(data.rows)
        /\ SubSeq(crypto_prices', Len(crypto_prices') - Len(data.rows) + 1,
                  Len(crypto_prices')) = data.rows
        /\ \/ /\ pc' = "report"
              /\ err' = "none"
              /\ Len(trade_signals') = Len(trade_signals) + Len(signals)
              /\ \A i \in 1 .. Len(signals) :
                    /\ trade_signals'[Len(trade_signals) + i].symbol = signals[i].symbol
                    /\ trade_signals'[Len(trade_signals) + i].signal = signals[i].signal
              /\ SubSeq(trade_signals', 1, Len(trade_signals)) = trade_signals
           \/ /\ pc' = "recover"
              /\ err' = "SQLAlchemyError"
              /\ trade_signals' = trade_signals
              /\ \E i \in 1 .. Len(out') : out'[i] = "Error in main loop"
           \/ /\ pc' = "stopped"
              /\ trade_signals' = trade_signals]_vars

\* C2 witness: the signal write of the first cycle failed on its last row; the
\* signal table is empty and the quote table holds the cycle's three rows.
C2_Witness ==
    /\ pc = "recover"
    /\ err = "SQLAlchemyError"
    /\ calls["store_signals"] = 1
    /\ Len(signals) = 3
    /\ failedAt = 3
    /\ trade_signals = <<>>
    /\ crypto_prices = data.rows
    /\ Len(crypto_prices) = 3

\* C3 (as claimed): at the end of a cycle in which a step failed - the fetch
\* with a transport error, a store, or anything else - the loop is in the
\* recovery sleep of 60 seconds.
C3_AnyFailureSleepsRecovery ==
    LET fetchFailed == data.none /\ fetchLog # <<>> /\ Last(fetchLog) = "transport"
        stepFailed == err \in {"SQLAlchemyError", "KeyError"}
    IN (pc \in {"sleep", "recover"} /\ (fetchFailed \/ stepFailed))
          => (pc = "recover" /\ sleepArg = RecoveryInterval)

\* C4: main leaves the running states only in a step that delivers a
\* KeyboardInterrupt, whatever failed before, and once it has left them
\* nothing happens any more.
C4_OnlyCancellationStops ==
    /\ [][(Running(pc) /\ ~Running(pc')) => (~interrupted /\ interrupted')]_vars
    /\ [][Terminal(pc) =>
            /\ pc' = pc
            /\ calls' = calls
            /\ sleepArg' = sleepArg
            /\ crypto_prices' = crypto_prices
            /\ trade_signals' = trade_signals]_vars

\* C4 witness: stopped by an interrupt in the third cycle, after a fetch
\* failure and a store failure.
C4_Witness ==
    /\ pc = "stopped"
    /\ interrupted
    /\ Len(fetchLog) = 3
    /\ fetchLog[1] = "transport"
    /\ failedAt > 0

\* C5 (as claimed): in a cycle whose fetch returned an empty result (not
\* None), main does not go on to write, classify or report: after the fetch
\* it is in the normal sleep of 300 seconds.
C5_EmptyFetchSleepsNormal ==
    (~data.none /\ data.rows = <<>> /\ Running(pc) /\ pc # "fetch")
        => (pc = "sleep" /\ sleepArg = NormalInterval /\ err = "none")

\* C6: when DatabaseManager's construction raises, main prints the fatal
\* error and ends; in the fatal state no step of the loop has been executed,
\* no sleep called and nothing stored, and the state is final.
C6_StartupFailureIsFatal ==
    /\ [][(pc = "startup" /\ err' = "Exception") =>
            /\ pc' = "fatal"
            /\ \E i \in 1 .. Len(out') : out'[i] = "Fatal error"]_vars
    /\ [](pc = "fatal" =>
            /\ \A s \in Steps : calls[s] = 0
            /\ sleepArg = 0
            /\ fetchLog = <<>>
            /\ crypto_prices = <<>>
            /\ trade_signals = <<>>)
    /\ [][pc = "fatal" => pc' = "fatal"]_vars

\* C6 witness: the fatal state after a failed construction.
C6_Witness == pc = "fatal" /\ err = "Exception" /\ Printed("Fatal error")

\* C7: with a fetcher that fails in the first two cycles and returns quotes in
\* the third, main is still running as long as no interrupt arrives, and when
\* the third cycle has reached its sleep (no store failed) the quote table is
\* exactly the third fetch's batch and the signal table exactly one signal per
\* fetched symbol.
C7_FailTwiceThenSucceed ==
    LET failed(k) == fetchLog[k] \in {"transport", "remote"}
        scripted == /\ fetchLog # <<>>
                    /\ \A k \in 1 .. Len(fetchLog) :
                          IF k <= 2 THEN failed(k) ELSE fetchLog[k] = "ok"
    IN (scripted /\ ~interrupted) =>
          /\ Running(pc)
          /\ Len(fetchLog) < 3 => (crypto_prices = <<>> /\ trade_signals = <<>>)
          /\ (Len(fetchLog) = 3 /\ pc = "sleep") =>
                /\ crypto_prices = data.rows
                /\ Len(trade_signals) = Len(data.rows)
                /\ \A i \in 1 .. Len(trade_signals) :
                      /\ trade_signals[i].symbol = data.rows[i].symbol
                      /\ trade_signals[i].timestamp = trade_signals[1].timestamp
                /\ sleepArg = NormalInterval

\* C7 witness: the third cycle is complete after two failed fetches.
C7_Witness ==
    /\ Len(fetchLog) = 3
    /\ fetchLog[1] = "transport"
    /\ fetchLog[2] = "transport"
    /\ fetchLog[3] = "ok"
    /\ pc = "sleep"
    /\ calls["sleep"] = 3
    /\ Len(crypto_prices) = 3
    /\ Len(trade_signals) = 3

\* C8: the signal analyze returns for a symbol is BUY iff the change of the
\* symbol's representative quote is above 5 and its volume above 1,000,000,
\* else SELL iff the change is below -5, else HOLD; all bounds strict.
C8_ThresholdRule ==
    Analyzed =>
        \A i \in 1 .. Len(signals) :
            LET q == FirstQuote(data.rows, signals[i].symbol)
                sig == signals[i].signal
            IN /\ sig \in {"BUY", "SELL", "HOLD"}
               /\ (sig = "BUY") <=> IsBuy(q)
               /\ (sig = "SELL") <=> IsSell(q)
               /\ (sig = "HOLD") <=> (~IsBuy(q) /\ ~IsSell(q))
               /\ (q.percent_change_24h = 50 /\ q.volume_24h = 1000001) => sig = "HOLD"
               /\ (q.percent_change_24h = 51 /\ q.volume_24h = 999999) => sig = "HOLD"
               /\ (q.percent_change_24h = 51 /\ q.volume_24h = 1000001) => sig = "BUY"
               /\ (q.percent_change_24h = -51) => sig = "SELL"
               /\ (q.percent_change_24h = -50) => sig = "HOLD"

\* C8 witness: analyze has classified a quote on the boundary (5.0 with
\* volume 1,000,001) as HOLD and one beyond it (5.1, 1,000,001) as BUY.
C8_Witness ==
    /\ Analyzed
    /\ Len(data.rows) = 2
    /\ data.rows[1].percent_change_24h = 50 /\ data.rows[1].volume_24h = 1000001
    /\ data.rows[2].percent_change_24h = 51 /\ data.rows[2].volume_24h = 1000001
    /\ Len(signals) = 2
    /\ signals[1].signal = "HOLD"
    /\ signals[2].signal = "BUY"

\* C9: the keys of the mapping analyze returns are exactly the distinct
\* symbols of the input, each once, and the signal of a symbol is the one of
\* the first quote of that symbol in the input.
C9_FirstWins ==
    Analyzed =>
        /\ {signals[i].symbol : i \in 1 .. Len(signals)}
              = {data.rows[i].symbol : i \in 1 .. Len(data.rows)}
        /\ \A i, j \in 1 .. Len(signals) : signals[i].symbol = signals[j].symbol => i = j
        /\ \A i \in 1 .. Len(signals) :
              LET q == FirstQuote(data.rows, signals[i].symbol)
              IN signals[i].signal =
                    IF IsBuy(q) THEN "BUY" ELSE IF IsSell(q) THEN "SELL" ELSE "HOLD"

\* C9 witness: the input has a SELL quote of BTC followed by a BUY quote of
\* BTC and no ETH quote; the mapping has BTC alone, as SELL.
C9_Witness ==
    /\ Analyzed
    /\ Len(data.rows) = 2
    /\ data.rows[1].symbol = "BTC" /\ data.rows[2].symbol = "BTC"
    /\ IsSell(data.rows[1])
    /\ IsBuy(data.rows[2])
    /\ Len(signals) = 1
    /\ signals[1] = [symbol |-> "BTC", signal |-> "SELL"]

\* C10 (as claimed): whenever analyze has been called on a frame the fetcher
\* returned, the empty one included, it has returned a mapping: no exception
\* of analyze reaches main.
C10_AnalyzeNeverRaises ==
    [][pc = "analyze" => (pc' \in {"store_signals", "stopped"} /\ err' # "KeyError")]_vars

Returned(op) == pc = "returned" /\ call.op = op

\* position of symbol s in the request q
IndexOf(q, s) == CHOOSE i \in 1 .. Len(q) : q[i] = s

\* C11: for a request of distinct symbols and a status-200 response,
\* get_latest_prices returns a frame (never None, nothing raised) with exactly
\* one row for each requested symbol that is in the response, carrying that
\* coin's values, in the order of the request; requested symbols missing from
\* the response have no row.  Requesting BTC and ZZZ with only BTC in the
\* response gives the one row of BTC.
C11_FetchOmitsAbsent ==
    (Returned("get_latest_prices") /\ call.kind = "ok") =>
        LET q == call.symbols
            rows == ret.rows
            wanted == SeqToSet(q) \cap DOMAIN call.coins
        IN /\ ~ret.none
           /\ err = "none"
           /\ Len(rows) = Cardinality(wanted)
           /\ {rows[i].symbol : i \in 1 .. Len(rows)} = wanted
           /\ \A i, j \in 1 .. Len(rows) :
                 i < j => IndexOf(q, rows[i].symbol) < IndexOf(q, rows[j].symbol)
           /\ \A i \in 1 .. Len(rows) :
                 /\ rows[i].price = call.coins[rows[i].symbol].price
                 /\ rows[i].volume_24h = call.coins[rows[i].symbol].volume_24h
                 /\ rows[i].percent_change_24h
                       = call.coins[rows[i].symbol].percent_change_24h
           /\ (q = <<"BTC", "ZZZ">> /\ "BTC" \in wanted /\ "ZZZ" \notin wanted)
                 => (Len(rows) = 1 /\ rows[1].symbol = "BTC")

\* C11 witness: BTC and ZZZ were requested, the response has BTC and not ZZZ,
\* and the frame returned has the one row of BTC.
C11_Witness ==
    /\ Returned("get_latest_prices")
    /\ call.kind = "ok"
    /\ call.symbols = <<"BTC", "ZZZ">>
    /\ DOMAIN call.coins = {"BTC"}
    /\ ~ret.none
    /\ Len(ret.rows) = 1
    /\ ret.rows[1].symbol = "BTC"

\* C12 (as claimed): a failed fetch gives its caller an outcome that is no
\* data result and that tells the kind of the failure: what is returned after
\* a non-200 status differs from what is returned after a transport failure;
\* and the request is made once.
C12_FailureKindsDistinguished ==
    (Returned("get_latest_prices") /\ call.kind # "ok") =>
        /\ ret.none
        /\ now = 1
        /\ \A k \in {"transport", "remote"} \ {call.kind} :
              get_latest_prices(call.symbols, k, call.coins, now).value # ret

ReadFailed == Printed("Error retrieving price data")

\* C13: a read that succeeds returns rows of the asked symbol only, as many as
\* the limit allows and the table has (min of the two), newest first, and no
\* stored row of the symbol that was left out is newer than a returned one.
\* With the ten BTC quotes stored and limit 5 the result is the quotes of
\* times 10, 9, 8, 7, 6 in this order.
C13_RecentNewestFirst ==
    (Returned("get_recent_prices") /\ ~ReadFailed) =>
        LET rows == ret.rows
            stored == {i \in 1 .. Len(crypto_prices) :
                          crypto_prices[i].symbol = call.symbol}
            n == Cardinality(stored)
        IN /\ \A i \in 1 .. Len(rows) : rows[i].symbol = call.symbol
           /\ Len(rows) = IF call.limit < n THEN call.limit ELSE n
           /\ \A i \in 1 .. Len(rows) : \E k \in stored : crypto_prices[k] = rows[i]
           /\ \A i, j \in 1 .. Len(rows) : i < j => rows[i].timestamp > rows[j].timestamp
           /\ \A k \in stored :
                 \/ \E i \in 1 .. Len(rows) : rows[i] = crypto_prices[k]
                 \/ \A i \in 1 .. Len(rows) : crypto_prices[k].timestamp < rows[i].timestamp
           /\ (crypto_prices = TenQuotes /\ call.limit = 5) =>
                 [i \in 1 .. Len(rows) |-> rows[i].timestamp] = <<10, 9, 8, 7, 6>>

\* C13 witness: the five newest of the ten BTC quotes have been returned.
C13_Witness ==
    /\ Returned("get_recent_prices")
    /\ ~ReadFailed
    /\ Len(crypto_prices) = 10
    /\ call.limit = 5
    /\ Len(ret.rows) = 5
    /\ ret.rows[1].timestamp = 10
    /\ ret.rows[5].timestamp = 6

\* C14: a call of get_recent_prices ends without an exception for its caller
\* and leaves both tables as they are; when the symbol has no stored quote,
\* and when the read fails, what it returns is an empty frame.
C14_ReadNeverRaises ==
    [][(pc = "call" /\ call.op = "get_recent_prices" /\ pc' = "returned") =>
        /\ err' = "none"
        /\ ~ret'.none
        /\ crypto_prices' = crypto_prices
        /\ trade_signals' = trade_signals
        /\ (\A i \in 1 .. Len(crypto_prices) : crypto_prices[i].symbol # call.symbol)
              => ret'.rows = <<>>
        /\ (\E i \in 1 .. Len(out') : out'[i] = "Error retrieving price data")
              => ret'.rows = <<>>]_vars

\* C14 witness: the read of a symbol that has stored quotes failed and an
\* empty frame came back.
C14_Witness ==
    /\ Returned("get_recent_prices")
    /\ ReadFailed
    /\ \E i \in 1 .. Len(crypto_prices) : crypto_prices[i].symbol = call.symbol
    /\ ~ret.none
    /\ ret.rows = <<>>
    /\ err = "none"

IsPrefix(s, t) == Len(s) <= Len(t) /\ SubSeq(t, 1, Len(s)) = s

\* C15: in every step, whatever fails or is interrupted, each table keeps all
\* its rows unchanged and in place and at most gains rows at its end; a
\* successful quote write adds one row per fetched quote, also for symbols
\* that already have rows.
C15_AppendOnly ==
    /\ [][IsPrefix(crypto_prices, crypto_prices')
            /\ IsPrefix(trade_signals, trade_signals')]_vars
    /\ [][(pc = "store_quotes" /\ pc' = "analyze") =>
            Len(crypto_prices') = Len(crypto_prices) + Len(data.rows)]_vars
    /\ [][(pc = "store_signals" /\ pc' = "report") =>
            Len(trade_signals') = Len(trade_signals) + Len(signals)]_vars

\* C15 witness: after a second successful poll of BTC the table holds the BTC
\* row of the first poll and, behind it, the BTC row of the second.
C15_Witness ==
    /\ pc = "sleep"
    /\ \E i, j \in 1 .. Len(crypto_prices) :
          /\ i < j
          /\ crypto_prices[i].symbol = "BTC"
          /\ crypto_prices[j].symbol = "BTC"
          /\ crypto_prices[i].timestamp < crypto_prices[j].timestamp
    /\ \E i, j \in 1 .. Len(trade_signals) :
          /\ i < j
          /\ trade_signals[i].symbol = "BTC"
          /\ trade_signals[j].symbol = "BTC"

\* C16 (as claimed): every committed quote row has a symbol and numbers in
\* its numeric fields, also when the response carried null for one of them.
C16_StoredQuotesFinite ==
    \A i \in 1 .. Len(crypto_prices) :
        /\ crypto_prices[i].symbol \in SeqToSet(symbols)
        /\ crypto_prices[i].price # Null
        /\ crypto_prices[i].volume_24h # Null
        /\ crypto_prices[i].percent_change_24h # Null

IsSuffix(s, t) == Len(s) <= Len(t) /\ SubSeq(t, Len(t) - Len(s) + 1, Len(t)) = s

\* C17: in a cycle whose fetch returned data the steps come in the order
\* store quotes, classify, store signals, report, sleep: classify is entered
\* only from a quote write that committed, the signal write only from
\* classify, the report only from a signal write that committed, and the
\* normal sleep only from the report (or from a fetch without data).  While
\* the signals are written and reported the cycle's quote batch is the end of
\* the quote table, and at the report the cycle's signal batch is the end of
\* the signal table.  Never are there more committed signal batches than
\* committed quote batches.
C17_CycleOrder ==
    /\ [](hist.signal_batches <= hist.quote_batches)
    /\ [](pc \in {"store_signals", "report"} => IsSuffix(data.rows, crypto_prices))
    /\ [](pc = "report" =>
            /\ Len(signals) <= Len(trade_signals)
            /\ \A i \in 1 .. Len(signals) :
                  LET r == trade_signals[Len(trade_signals) - Len(signals) + i]
                  IN r.symbol = signals[i].symbol /\ r.signal = signals[i].signal)
    /\ [][(pc' = "analyze" /\ pc # "analyze") =>
            (pc = "store_quotes" /\ hist'.quote_batches = hist.quote_batches + 1)]_vars
    /\ [][(pc' = "store_signals" /\ pc # "store_signals") => pc = "analyze"]_vars
    /\ [][(pc' = "report" /\ pc # "report") =>
            (pc = "store_signals" /\ hist'.signal_batches = hist.signal_batches + 1)]_vars
    /\ [][(pc' = "sleep" /\ pc # "sleep") =>
            (pc = "report" \/ (pc = "fetch" /\ data'.none))]_vars

\* C17 witness: the second complete cycle has been reported and sleeps; an
\* earlier cycle committed its quotes and lost its signals.
C17_Witness ==
    /\ pc = "sleep"
    /\ ~data.none
    /\ Printed("Trading Signals:")
    /\ hist.quote_batches = 3
    /\ hist.signal_batches = 2
    /\ Len(data.rows) = 3

\* C18 (as claimed): an interrupt delivered during the sleep of line 199 or
\* during the recovery sleep of line 206 is handled by the loop's
\* KeyboardInterrupt clause: the stop is reported and the loop is stopped.
C18_InterruptInSleepStops ==
    [][(pc \in {"sleep", "recover"} /\ ~interrupted /\ interrupted') =>
        /\ pc' = "stopped"
        /\ \E i \in 1 .. Len(out') : out'[i] = "Stopping data collection..."]_vars

\* the quotes of the cycle in progress are committed, its signals are not, and
\* no write of the cycle failed
CutBetweenWrites ==
    /\ ~data.none
    /\ data.rows # <<>>
    /\ crypto_prices # <<>>
    /\ Last(crypto_prices).timestamp = data.rows[1].timestamp
    /\ \A i \in 1 .. Len(trade_signals) :
          trade_signals[i].timestamp < data.rows[1].timestamp
    /\ failedAt = 0

\* C19 (as claimed): no interrupt cuts a cycle between its quote write and
\* its signal write: in no stopped state are the last cycle's quotes
\* committed and its signals missing without a write having failed.
C19_NoCutBetweenWrites == pc = "stopped" => ~CutBetweenWrites

Sleeps == calls["sleep"] + hist.recovery_sleeps

\* C20: whenever main is about to fetch it has slept exactly once per fetch
\* made so far, and inside a cycle one sleep less; the normal sleep is called
\* with 300 and the recovery sleep with 60, a fetch is entered only from
\* startup or from one of the two sleeps, and from one sleep main never goes
\* into the other.
C20_OneSleepPerCycle ==
    /\ [](pc = "fetch" => Sleeps = calls["fetch"])
    /\ [](pc \in {"sleep", "recover"} => Sleeps = calls["fetch"])
    /\ [](pc \in {"store_quotes", "analyze", "store_signals", "report"}
            => Sleeps = calls["fetch"] - 1)
    /\ [](pc = "sleep" => sleepArg = NormalInterval)
    /\ [](pc = "recover" => sleepArg = RecoveryInterval)
    /\ [][(pc' = "fetch" /\ pc # "fetch") => pc \in {"startup", "sleep", "recover"}]_vars
    /\ [][pc = "sleep" => pc' \in {"sleep", "fetch", "stopped"}]_vars
    /\ [][pc = "recover" => pc' \in {"recover", "fetch", "aborted"}]_vars

\* C20 witness: the third fetch is about to start after one recovery sleep
\* and one normal sleep.
C20_Witness ==
    /\ pc = "fetch"
    /\ calls["fetch"] = 2
    /\ calls["sleep"] = 1
    /\ hist.recovery_sleeps = 1

====
